---- MODULE Spec2Model ----
(***************************************************************************)
(* Privacy-aware query sets of mozillians/users/managers.py.               *)
(*                                                                         *)
(* The database is a sequence of profile rows (a function from column      *)
(* names to stored values).  Query sets are records holding what the code  *)
(* keeps on the object: its class, its _privacy_level attribute (None is   *)
(* written NoLevel), the filter/exclude conditions of its query, the       *)
(* field names of values() and its _iterator attribute.  Generators are    *)
(* the suspended frames of the two iterator() methods; one action is one   *)
(* next() call on a generator.                                             *)
(***************************************************************************)
EXTENDS Integers, Sequences, FiniteSets, TLC

VARIABLES db, qsets, calls, vgens, ogens, iters, stored0

vars == <<db, qsets, calls, vgens, ogens, iters, stored0>>

----------------------------------------------------------------------------
(* Module constants, managers.py lines 7-31 *)

PRIVILEGED == 1
EMPLOYEES == 2
MOZILLIANS == 3
PUBLIC == 4

Levels == {PRIVILEGED, EMPLOYEES, MOZILLIANS, PUBLIC}

\* the levels of PRIVACY_CHOICES
PRIVACY_CHOICES == {MOZILLIANS, PUBLIC}

\* getattr(self, '_privacy_level', None): None orders below every integer
\* in Python 2, so "marker < None" is false exactly as "marker < 0" is.
NoLevel == 0

PUBLIC_INDEXABLE_FIELDS == <<"full_name", "ircname", "email">>

None == "None"
EmptyQuerySet == "EmptyQuerySet"

DEFAULT_PRIVACY_FIELDS ==
    [photo |-> None,
     full_name |-> "",
     ircname |-> "",
     email |-> "",
     website |-> "",
     bio |-> "",
     city |-> "",
     region |-> "",
     country |-> "",
     groups |-> EmptyQuerySet,
     skills |-> EmptyQuerySet,
     languages |-> EmptyQuerySet,
     vouched_by |-> None,
     date_mozillian |-> None,
     timezone |-> ""]

Fields == DOMAIN DEFAULT_PRIVACY_FIELDS

\* 'privacy_%s' % field
PrivacyKey(field) == "privacy_" \o field

PrivacyKeys == {PrivacyKey(f) : f \in Fields}

FieldOfKey(key) == CHOOSE f \in Fields : PrivacyKey(f) = key

OtherColumns == {"id", "is_vouched", "user__email"}

Columns == Fields \cup PrivacyKeys \cup OtherColumns

----------------------------------------------------------------------------
(* Q objects, in disjunctive normal form: a sequence of conjunctions, each *)
(* a sequence of literals key = val or NOT key = val.                      *)

Q == <<>>

QLeaf(key, val) == << << [key |-> key, val |-> val, neg |-> FALSE] >> >>

\* a | b ; Q() is the identity of |
QOr(a, b) == a \o b

\* ~a, for the single-lookup Q the code negates
QNot(a) == << << [a[1][1] EXCEPT !.neg = ~@] >> >>

\* a & b, for two single-conjunction Qs
QAnd(a, b) == << a[1] \o b[1] >>

LitHolds(row, lit) == (row[lit.key] = lit.val) # lit.neg

QMatches(row, q) ==
    \/ Len(q) = 0
    \/ \E i \in 1..Len(q) : \A j \in 1..Len(q[i]) : LitHolds(row, q[i][j])

RECURSIVE FoldPublicQ(_, _)
FoldPublicQ(q, fields) ==
    IF fields = {} THEN q
    ELSE LET field == CHOOSE f \in fields : TRUE
             key == PrivacyKey(field)
         IN FoldPublicQ(QOr(q, QLeaf(key, PUBLIC)), fields \ {field})

\* the first loop run over PUBLIC_INDEXABLE_FIELDS
public_q_indexable == FoldPublicQ(Q, {"full_name", "ircname", "email"})

\* UserProfileQuerySet.__init__, first loop
public_q == FoldPublicQ(Q, Fields)

\* the second loop without the test for a non-empty value
RECURSIVE FoldPublicIndexQAnyValue(_, _)
FoldPublicIndexQAnyValue(q, n) ==
    IF n > Len(PUBLIC_INDEXABLE_FIELDS) THEN q
    ELSE LET field0 == PUBLIC_INDEXABLE_FIELDS[n]
             key == PrivacyKey(field0)
         IN FoldPublicIndexQAnyValue(QOr(q, QLeaf(key, PUBLIC)), n + 1)

RECURSIVE FoldPublicIndexQ(_, _)
FoldPublicIndexQ(q, n) ==
    IF n > Len(PUBLIC_INDEXABLE_FIELDS) THEN q
    ELSE LET field0 == PUBLIC_INDEXABLE_FIELDS[n]
             key == PrivacyKey(field0)
             field == IF field0 = "email" THEN "user__email" ELSE field0
         IN FoldPublicIndexQ(
                QOr(q, QAnd(QLeaf(key, PUBLIC), QNot(QLeaf(field, "")))),
                n + 1)

\* UserProfileQuerySet.__init__, second loop
public_index_q == FoldPublicIndexQ(Q, 1)

----------------------------------------------------------------------------
(* Query sets *)

UserProfileQuerySet == "UserProfileQuerySet"
ValuesQuerySet == "ValuesQuerySet"
UserProfileValuesQuerySet == "UserProfileValuesQuerySet"

\* UserProfileManager.get_query_set: a fresh UserProfileQuerySet(self.model)
get_query_set ==
    [klass |-> UserProfileQuerySet,
     where |-> <<>>,
     field_names |-> <<>>,
     _privacy_level |-> NoLevel,
     _iterator |-> 0]

\* getattr(self, '_privacy_level', None)
GetPrivacyLevel(self) == self._privacy_level

\* QuerySet._clone of the framework: a new object of class klass (the
\* receiver's class when klass is None) over a copy of the query; the
\* new object has no _privacy_level and no _iterator attribute.
QuerySet_clone(self, klass) ==
    [klass |-> IF klass = None THEN self.klass ELSE klass,
     where |-> self.where,
     field_names |-> self.field_names,
     _privacy_level |-> NoLevel,
     _iterator |-> 0]

\* UserProfileValuesQuerySet._clone
UserProfileValuesQuerySet_clone(self, klass) ==
    LET c == QuerySet_clone(self, klass)
    IN [c EXCEPT !._privacy_level = GetPrivacyLevel(self)]

\* _clone without line 116
UserProfileQuerySet_cloneNoLevel(self, klass) ==
    QuerySet_clone(self, IF klass = ValuesQuerySet
                         THEN UserProfileValuesQuerySet ELSE klass)

\* UserProfileQuerySet._clone
UserProfileQuerySet_clone(self, klass) ==
    LET k == IF klass = ValuesQuerySet THEN UserProfileValuesQuerySet ELSE klass
        c == QuerySet_clone(self, k)
    IN [c EXCEPT !._privacy_level = GetPrivacyLevel(self)]

\* self._clone(...), dispatched on the receiver's class
Clone(self, klass) ==
    IF self.klass = UserProfileQuerySet
    THEN UserProfileQuerySet_clone(self, klass)
    ELSE UserProfileValuesQuerySet_clone(self, klass)

\* QuerySet.filter / QuerySet.exclude / QuerySet.all of the framework
filter(self, q) ==
    LET c == Clone(self, None)
    IN [c EXCEPT !.where = Append(@, [exclude |-> FALSE, q |-> q])]

exclude(self, q) ==
    LET c == Clone(self, None)
    IN [c EXCEPT !.where = Append(@, [exclude |-> TRUE, q |-> q])]

all(self) == Clone(self, None)

\* QuerySet.values(*fields) of the framework
values(self, fields) ==
    LET c == Clone(self, ValuesQuerySet)
    IN [c EXCEPT !.field_names = fields]

\* UserProfileQuerySet.privacy_level: the receiver after the assignment
SetPrivacyLevel(self, level) ==
    [self EXCEPT !._privacy_level = level]

\* UserProfileQuerySet.privacy_level: the returned query set
privacy_level(self, level) == all(SetPrivacyLevel(self, level))

public(self) == filter(self, public_q)

complete(self) == exclude(self, QLeaf("full_name", ""))

vouched(self) == filter(complete(self), QLeaf("is_vouched", TRUE))

public_indexable(self) == filter(complete(self), public_index_q)

not_public_indexable(self) == exclude(complete(self), public_index_q)

\* The rows the query of a query set selects, in table order
RowMatches(row, where) ==
    \A n \in 1..Len(where) : QMatches(row, where[n].q) # where[n].exclude

Selected(rows, self) ==
    LET Test(row) == RowMatches(row, self.where)
    IN SelectSeq(rows, Test)

----------------------------------------------------------------------------
(* Bounds and the stored profiles *)

MaxProfiles == 2
MaxQuerySets == 2
MaxGenerators == 2

\* A stored profile row.  marks: the privacy marker of every protected
\* field; empty: the columns among full_name, ircname and the user's email
\* that are stored empty.  The email of a profile is the email of its user.
MkRow(pk, marks, empty, vouchedFlag) ==
    [c \in Columns |->
        IF c = "id" THEN pk
        ELSE IF c = "is_vouched" THEN vouchedFlag
        ELSE IF c = "user__email" \/ c = "email"
             THEN (IF "user__email" \in empty THEN "" ELSE "ann@example.org")
        ELSE IF c \in {"full_name", "ircname"}
             THEN (IF c \in empty THEN "" ELSE "ann")
        ELSE IF c \in Fields THEN "stored " \o c
        ELSE marks[FieldOfKey(c)]]

AtMostOne(S) == {{}} \cup {{x} : x \in S}

\* At most one PUBLIC field, the others MOZILLIANS (the marker a profile
\* starts with)
PublicMarks(pub) == [f \in Fields |-> IF f \in pub THEN PUBLIC ELSE MOZILLIANS]

\* full_name marked m, every other field marked with the level after m
\* (PRIVILEGED after PUBLIC)
MixedMarks(m) ==
    [f \in Fields |-> IF f = "full_name" THEN m ELSE (m % PUBLIC) + 1]

\* Profiles for the filter methods
WideRows(pk) ==
    {MkRow(pk, PublicMarks(pub), empty, TRUE) :
        pub \in AtMostOne(Fields),
        empty \in AtMostOne({"full_name", "ircname", "user__email"})}

\* Profiles for the iterators, with the markers PRIVACY_CHOICES offers for
\* full_name
NarrowRows(pk) ==
    {MkRow(pk, MixedMarks(m), {}, TRUE) : m \in PRIVACY_CHOICES}

RowsOf(kind, pk) == IF kind = "wide" THEN WideRows(pk) ELSE NarrowRows(pk)

\* The tables of n rows of a kind, with primary keys 1..n
RECURSIVE Tables(_, _)
Tables(n, kind) ==
    IF n = 0 THEN {<<>>}
    ELSE {Append(t, r) : t \in Tables(n - 1, kind), r \in RowsOf(kind, n)}

\* values(*fields) argument lists
WithPrivacyColumns ==
    <<"privacy_photo", "id", "photo", "full_name", "privacy_full_name">>

FieldLists == {WithPrivacyColumns, <<"email", "privacy_email", "groups">>}

----------------------------------------------------------------------------
(* Calls on query sets: the result is a new query set; privacy_level also  *)
(* assigns to the receiver.  calls[j] records the call that made qsets[j]. *)

Add(i, name, c) ==
    /\ qsets' = Append(qsets, c)
    /\ calls' = Append(calls, [op |-> name, recv |-> i])

\* UserProfileManager.__getattr__: a method called on the manager (receiver
\* 0) is called on a fresh get_query_set(), which nothing else refers to
Recv(i) == IF i = 0 THEN get_query_set ELSE qsets[i]

Receiver(i) ==
    /\ i \in 0..Len(qsets)
    /\ Len(qsets) < MaxQuerySets

IsProfileQS(i) == Recv(i).klass = UserProfileQuerySet

CallPrivacyLevel(i, level) ==
    /\ Receiver(i) /\ IsProfileQS(i)
    /\ qsets' = Append(IF i = 0 THEN qsets
                       ELSE [qsets EXCEPT ![i] = SetPrivacyLevel(@, level)],
                       privacy_level(Recv(i), level))
    /\ calls' = Append(calls, [op |-> "privacy_level", recv |-> i])
    /\ UNCHANGED <<db, vgens, ogens, iters, stored0>>

CallPublic(i) ==
    /\ Receiver(i) /\ IsProfileQS(i)
    /\ Add(i, "public", public(Recv(i)))
    /\ UNCHANGED <<db, vgens, ogens, iters, stored0>>

CallVouched(i) ==
    /\ Receiver(i) /\ IsProfileQS(i)
    /\ Add(i, "vouched", vouched(Recv(i)))
    /\ UNCHANGED <<db, vgens, ogens, iters, stored0>>

CallComplete(i) ==
    /\ Receiver(i) /\ IsProfileQS(i)
    /\ Add(i, "complete", complete(Recv(i)))
    /\ UNCHANGED <<db, vgens, ogens, iters, stored0>>

CallPublicIndexable(i) ==
    /\ Receiver(i) /\ IsProfileQS(i)
    /\ Add(i, "public_indexable", public_indexable(Recv(i)))
    /\ UNCHANGED <<db, vgens, ogens, iters, stored0>>

CallNotPublicIndexable(i) ==
    /\ Receiver(i) /\ IsProfileQS(i)
    /\ Add(i, "not_public_indexable", not_public_indexable(Recv(i)))
    /\ UNCHANGED <<db, vgens, ogens, iters, stored0>>

CallFilter(i) ==
    /\ Receiver(i)
    /\ Add(i, "filter", filter(Recv(i), QLeaf("is_vouched", TRUE)))
    /\ UNCHANGED <<db, vgens, ogens, iters, stored0>>

CallExclude(i) ==
    /\ Receiver(i)
    /\ Add(i, "exclude", exclude(Recv(i), QLeaf("privacy_bio", PUBLIC)))
    /\ UNCHANGED <<db, vgens, ogens, iters, stored0>>

CallAll(i) ==
    /\ Receiver(i)
    /\ Add(i, "all", all(Recv(i)))
    /\ UNCHANGED <<db, vgens, ogens, iters, stored0>>

CallValues(i, fields) ==
    /\ Receiver(i) /\ IsProfileQS(i)
    /\ Add(i, "values", values(Recv(i), fields))
    /\ UNCHANGED <<db, vgens, ogens, iters, stored0>>

----------------------------------------------------------------------------
(* UserProfileValuesQuerySet.iterator *)

Range(seq) == {seq[n] : n \in DOMAIN seq}

\* list.index: the first position of x, ValueError when x is absent
HasName(names, x) == \E n \in DOMAIN names : names[n] = x

Index(names, x) ==
    CHOOSE n \in DOMAIN names :
        names[n] = x /\ \A m \in 1..(n - 1) : names[m] # x

\* extra_names + field_names + aggregate_names; no extra() or annotate()
\* call is made, so the first and the last list are empty
Names(self) == <<>> \o self.field_names \o <<>>

\* the list comprehension passing over the fields without a privacy column
PrivacyFieldsLenient(names) ==
    [raised |-> FALSE,
     value |-> {<<Index(names, PrivacyKey(field)), Index(names, field), field>> :
                   field \in {f \in Fields \cap Range(names) :
                                 HasName(names, PrivacyKey(f))}}]

\* the list comprehension of lines 57-59: the (levelindex, fieldindex,
\* field) triples, or ValueError when names.index finds no privacy column
PrivacyFields(names) ==
    IF \E field \in Fields \cap Range(names) : ~HasName(names, PrivacyKey(field))
    THEN [raised |-> TRUE, value |-> {}]
    ELSE [raised |-> FALSE,
          value |-> {<<Index(names, PrivacyKey(field)), Index(names, field), field>> :
                        field \in Fields \cap Range(names)}]

\* a row of results_iter(): the selected columns, in the order of names
ResultRow(dbrow, names) == [n \in DOMAIN names |-> dbrow[names[n]]]

\* the inner loop with <= for <
RECURSIVE RedactRowInclusive(_, _, _)
RedactRowInclusive(row, privacy_fields, level) ==
    IF privacy_fields = {} THEN row
    ELSE LET pf == CHOOSE t \in privacy_fields : TRUE
             row2 == IF row[pf[1]] <= level
                     THEN [row EXCEPT ![pf[2]] = DEFAULT_PRIVACY_FIELDS[pf[3]]]
                     ELSE row
         IN RedactRowInclusive(row2, privacy_fields \ {pf}, level)

\* the inner loop with the comparison turned round
RECURSIVE RedactRowReversed(_, _, _)
RedactRowReversed(row, privacy_fields, level) ==
    IF privacy_fields = {} THEN row
    ELSE LET pf == CHOOSE t \in privacy_fields : TRUE
             row2 == IF level < row[pf[1]]
                     THEN [row EXCEPT ![pf[2]] = DEFAULT_PRIVACY_FIELDS[pf[3]]]
                     ELSE row
         IN RedactRowReversed(row2, privacy_fields \ {pf}, level)

\* the inner loop of lines 63-65 on row = list(row)
RECURSIVE RedactRow(_, _, _)
RedactRow(row, privacy_fields, level) ==
    IF privacy_fields = {} THEN row
    ELSE LET pf == CHOOSE t \in privacy_fields : TRUE
             levelindex == pf[1]
             fieldindex == pf[2]
             field == pf[3]
             row2 == IF row[levelindex] < level
                     THEN [row EXCEPT ![fieldindex] = DEFAULT_PRIVACY_FIELDS[field]]
                     ELSE row
         IN RedactRow(row2, privacy_fields \ {pf}, level)

\* dict(zip(names, row)): a later pair replaces an earlier one with its key
ZipDict(names, row) ==
    [k \in Range(names) |->
        row[CHOOSE n \in DOMAIN names :
                names[n] = k /\ \A m \in (n + 1)..Len(names) : names[m] # k]]

GeneratorsLeft == Len(vgens) + Len(ogens) < MaxGenerators

\* qsets[i].iterator() on a values query set: a generator, not yet started
CallValuesIterator(i) ==
    /\ i \in DOMAIN qsets
    /\ qsets[i].klass = UserProfileValuesQuerySet
    /\ GeneratorsLeft
    /\ vgens' = Append(vgens, [qs |-> i, pc |-> "start", names |-> <<>>,
                               privacy_fields |-> {}, pos |-> 0, out |-> <<>>])
    /\ UNCHANGED <<db, qsets, calls, ogens, iters, stored0>>

\* one next() on a values generator, as the new frame of the generator:
\* from its start or its last yield to the next yield, to the ValueError
\* or to the end of the rows
ValuesStep(gen, self, table) ==
    LET names == IF gen.pc = "start" THEN Names(self) ELSE gen.names
        pfs == IF gen.pc = "start"
               THEN PrivacyFields(names)
               ELSE [raised |-> FALSE, value |-> gen.privacy_fields]
        started == [gen EXCEPT !.names = names, !.privacy_fields = pfs.value]
        rows == Selected(table, self)
    IN IF pfs.raised THEN [started EXCEPT !.pc = "ValueError"]
       ELSE IF gen.pos < Len(rows)
       THEN LET row == ResultRow(rows[gen.pos + 1], names)
                red == RedactRow(row, pfs.value, self._privacy_level)
            IN [started EXCEPT !.pc = "running",
                               !.pos = @ + 1,
                               !.out = Append(@, ZipDict(names, red))]
       ELSE [started EXCEPT !.pc = "done"]

\* the stored table when a yielded dictionary is written over its profile
WriteBack(table, self, gen) ==
    IF Len(gen.out) = 0 THEN table
    ELSE LET d == gen.out[Len(gen.out)]
             pk == Selected(table, self)[Len(gen.out)]["id"]
         IN [table EXCEPT ![pk] =
                [c \in Columns |-> IF c \in DOMAIN d THEN d[c] ELSE @[c]]]

\* next() saving the yielded dictionary
ValuesNextSaving(g) ==
    /\ g \in DOMAIN vgens
    /\ vgens[g].pc \in {"start", "running"}
    /\ vgens' = [vgens EXCEPT ![g] = ValuesStep(@, qsets[@.qs], db)]
    /\ db' = WriteBack(db, qsets[vgens[g].qs], vgens'[g])
    /\ UNCHANGED <<qsets, calls, ogens, iters, stored0>>

ValuesNext(g) ==
    /\ g \in DOMAIN vgens
    /\ vgens[g].pc \in {"start", "running"}
    /\ vgens' = [vgens EXCEPT ![g] = ValuesStep(@, qsets[@.qs], db)]
    /\ UNCHANGED <<db, qsets, calls, ogens, iters, stored0>>

----------------
(* UserProfileQuerySet.iterator *)

\* qsets[i].iterator() on a profile query set: _generator(), not yet started
CallIterator(i) ==
    /\ i \in DOMAIN qsets
    /\ qsets[i].klass = UserProfileQuerySet
    /\ GeneratorsLeft
    /\ ogens' = Append(ogens, [qs |-> i, pc |-> "start", out |-> <<>>])
    /\ UNCHANGED <<db, qsets, calls, vgens, iters, stored0>>

\* the model instance the framework builds from a row
Instance(dbrow) == [fields |-> dbrow, _privacy_level |-> NoLevel]

\* one next() on _generator: on the first, line 126 stores a new iterator of
\* the framework in self._iterator; then self._iterator.next() either gives
\* an object, which is marked and yielded, or raises StopIteration, which
\* ends the generator
GeneratorNext(g) ==
    /\ g \in DOMAIN ogens
    /\ ogens[g].pc \in {"start", "running"}
    /\ LET gen == ogens[g]
           i == gen.qs
           iters1 == IF gen.pc = "start"
                     THEN Append(iters, [qs |-> i, pos |-> 0])
                     ELSE iters
           self == IF gen.pc = "start"
                   THEN [qsets[i] EXCEPT !._iterator = Len(iters1)]
                   ELSE qsets[i]
           it == iters1[self._iterator]
           rows == Selected(db, qsets[it.qs])
       IN /\ qsets' = [qsets EXCEPT ![i] = self]
          /\ IF it.pos < Len(rows)
             THEN LET obj == [Instance(rows[it.pos + 1]) EXCEPT
                                 !._privacy_level = GetPrivacyLevel(self)]
                  IN /\ iters' = [iters1 EXCEPT ![self._iterator].pos = @ + 1]
                     /\ ogens' = [ogens EXCEPT ![g] =
                            [gen EXCEPT !.pc = "running", !.out = Append(@, obj)]]
             ELSE /\ iters' = iters1
                  /\ ogens' = [ogens EXCEPT ![g] = [gen EXCEPT !.pc = "done"]]
    /\ UNCHANGED <<db, calls, vgens, stored0>>

----------------------------------------------------------------------------
(* Specifications *)

InitObjects ==
    /\ qsets = <<>>
    /\ calls = <<>>
    /\ vgens = <<>>
    /\ ogens = <<>>
    /\ iters = <<>>
    /\ stored0 = db

\* The filter methods, over one profile of every shape and a fixed second one
InitQuery ==
    /\ db \in {t \o <<MkRow(2, PublicMarks({"timezone"}), {}, FALSE)>> :
                  t \in Tables(1, "wide")}
    /\ InitObjects

NextQuery ==
    \/ \E i \in 0..MaxQuerySets, level \in Levels : CallPrivacyLevel(i, level)
    \/ \E i \in 0..MaxQuerySets : CallPublic(i)
    \/ \E i \in 0..MaxQuerySets : CallVouched(i)
    \/ \E i \in 0..MaxQuerySets : CallComplete(i)
    \/ \E i \in 0..MaxQuerySets : CallPublicIndexable(i)
    \/ \E i \in 0..MaxQuerySets : CallNotPublicIndexable(i)
    \/ \E i \in 0..MaxQuerySets : CallFilter(i)
    \/ \E i \in 0..MaxQuerySets : CallExclude(i)
    \/ \E i \in 0..MaxQuerySets : CallAll(i)
    \/ \E i \in 0..MaxQuerySets : CallValues(i, WithPrivacyColumns)

SpecQuery == InitQuery /\ [][NextQuery]_vars

\* The values iterator, over the tables of profiles of mixed markers
InitValues ==
    /\ db \in Tables(MaxProfiles, "narrow")
    /\ InitObjects

NextValues ==
    \/ \E i \in 0..MaxQuerySets, level \in Levels : CallPrivacyLevel(i, level)
    \/ \E i \in 0..MaxQuerySets, fields \in FieldLists : CallValues(i, fields)
    \/ \E i \in 0..MaxQuerySets : CallExclude(i)
    \/ \E i \in 1..MaxQuerySets : CallValuesIterator(i)
    \/ \E g \in 1..MaxGenerators : ValuesNext(g)

SpecValues == InitValues /\ [][NextValues]_vars

\* Both iterators, over a table of two profiles of mixed markers
TwoProfiles ==
    <<MkRow(1, MixedMarks(MOZILLIANS), {}, TRUE),
      MkRow(2, MixedMarks(PUBLIC), {}, TRUE)>>

Init ==
    /\ db = TwoProfiles
    /\ InitObjects

Next ==
    \/ \E i \in 0..MaxQuerySets, level \in PRIVACY_CHOICES :
          CallPrivacyLevel(i, level)
    \/ \E i \in 0..MaxQuerySets : CallValues(i, WithPrivacyColumns)
    \/ \E i \in 0..MaxQuerySets : CallExclude(i)
    \/ \E i \in 1..MaxQuerySets : CallValuesIterator(i)
    \/ \E g \in 1..MaxGenerators : ValuesNext(g)
    \/ \E i \in 1..MaxQuerySets : CallIterator(i)
    \/ \E g \in 1..MaxGenerators : GeneratorNext(g)

Spec == Init /\ [][Next]_vars

----------------------------------------------------------------------------
(* Properties *)

\* <<g, k>>: values generator g has yielded its k-th row
Yielded == UNION {{<<g, k>> : k \in DOMAIN vgens[g].out} : g \in DOMAIN vgens}

ViewerLevel(g) == qsets[vgens[g].qs]._privacy_level

StoredRow(g, k) == Selected(db, qsets[vgens[g].qs])[k]

Requested(g) == Fields \cap Range(Names(qsets[vgens[g].qs]))

C3_StoredDataUnchanged ==
    /\ db = stored0
    /\ \A y \in Yielded :
          LET d == vgens[y[1]].out[y[2]]
              r == Selected(stored0, qsets[vgens[y[1]].qs])[y[2]]
          IN \A c \in DOMAIN d :
                \/ d[c] = r[c]
                \/ c \in Fields /\ d[c] = DEFAULT_PRIVACY_FIELDS[c]
    /\ \A g \in DOMAIN ogens :
          \A k \in DOMAIN ogens[g].out :
              ogens[g].out[k].fields = stored0[ogens[g].out[k].fields["id"]]

\* C3 witness: a values iteration has ended after redacting a row, and an
\* object of the same profile has been yielded with its stored columns
C3_Witness ==
    \E y \in Yielded :
        /\ vgens[y[1]].pc = "done"
        /\ \E F \in Requested(y[1]) :
              /\ vgens[y[1]].out[y[2]][F] # StoredRow(y[1], y[2])[F]
              /\ \E g \in DOMAIN ogens :
                    \E k \in DOMAIN ogens[g].out :
                        /\ ogens[g].out[k].fields = StoredRow(y[1], y[2])
                        /\ ogens[g].out[k].fields[F] # vgens[y[1]].out[y[2]][F]

\* a protected field was requested without its privacy column
MissingPrivacyColumn(names) ==
    \E F \in Fields \cap Range(names) :
        \A n \in DOMAIN names : names[n] # PrivacyKey(F)

\* C4: a values query set asked for a protected field F without privacy_F
\* yields no row: its iteration stops with the error at its first step.
C4_NoRowWithoutPrivacyColumn ==
    \A g \in DOMAIN vgens :
        MissingPrivacyColumn(Names(qsets[vgens[g].qs])) =>
            /\ vgens[g].out = <<>>
            /\ vgens[g].pc \in {"start", "ValueError"}

\* C4 witness: the error was raised over a query with rows to yield
C4_Witness ==
    \E g \in DOMAIN vgens :
        /\ vgens[g].pc = "ValueError"
        /\ MissingPrivacyColumn(Names(qsets[vgens[g].qs]))
        /\ Len(Selected(db, qsets[vgens[g].qs])) > 0

HasPublicField(row) == \E F \in Fields : row[PrivacyKey(F)] = PUBLIC

ProfileReceivers == {i \in 0..Len(qsets) : IsProfileQS(i)}

\* C5: public() selects exactly the profiles of its receiver that have at
\* least one protected field marked PUBLIC.
C5_PublicIsAtLeastOnePublicField ==
    \A i \in ProfileReceivers :
        Selected(db, public(Recv(i))) =
            SelectSeq(Selected(db, Recv(i)), HasPublicField)

\* C5 witness: public() was called and kept a profile whose only PUBLIC
\* field is not an indexable one, and dropped a profile
C5_Witness ==
    \E j \in DOMAIN calls :
        /\ calls[j].op = "public"
        /\ Len(Selected(db, qsets[j])) = 1
        /\ Len(Selected(db, Recv(calls[j].recv))) = 2
        /\ Selected(db, qsets[j])[1]["privacy_timezone"] = PUBLIC

C7_YieldsEveryObjectInOrder ==
    [][\A g \in DOMAIN ogens :
          LET rows == Selected(db, qsets[ogens[g].qs])
              k == Len(ogens'[g].out)
          IN /\ ogens'[g].out # ogens[g].out =>
                  /\ k <= Len(rows)
                  /\ ogens'[g].out[k].fields = rows[k]
                  /\ ogens'[g].out[k]._privacy_level
                        = qsets'[ogens[g].qs]._privacy_level
             /\ (ogens'[g].pc = "done" /\ ogens[g].pc # "done") =>
                  Len(ogens[g].out) = Len(rows)
    ]_vars

Indexable(row) ==
    \E f \in Range(PUBLIC_INDEXABLE_FIELDS) :
        /\ row[PrivacyKey(f)] = PUBLIC
        /\ (IF f = "email" THEN row["user__email"] ELSE row[f]) # ""

\* C8: public_indexable() and not_public_indexable() of a receiver are
\* disjoint, together they are its profiles with a non-empty full_name, and
\* such a profile is in public_indexable() exactly when one of full_name,
\* ircname, email is marked PUBLIC and has a non-empty value (the user's
\* email for email).
C8_IndexablePartition ==
    \A i \in ProfileReceivers :
        LET pi == Range(Selected(db, public_indexable(Recv(i))))
            npi == Range(Selected(db, not_public_indexable(Recv(i))))
            whole == {row \in Range(Selected(db, Recv(i))) : row["full_name"] # ""}
        IN /\ pi \cap npi = {}
           /\ pi \cup npi = whole
           /\ \A row \in whole : row \in pi <=> Indexable(row)

\* C8 witness: both methods were called on one receiver and each selected
\* one of the two profiles
C8_Witness ==
    \E j, l \in DOMAIN calls :
        /\ calls[j].op = "public_indexable"
        /\ calls[l].op = "not_public_indexable"
        /\ calls[j].recv = calls[l].recv
        /\ Len(Selected(db, qsets[j])) = 1
        /\ Len(Selected(db, qsets[l])) = 1

====
